---- MODULE Spec2Model ----
(***************************************************************************)
(* Model of the event bus (app/core/event_bus.py), of the session runner   *)
(* (app/core/runner.py) with the reasoning step it calls                   *)
(* (app/agents/langgraph_agent.py), the tool registry (app/core/tools.py)  *)
(* and the events table (app/storage/store.py), and of the start_run       *)
(* handler with its runner registry (app/api/routes.py).                   *)
(*                                                                         *)
(* Scheduling.  The program is an asyncio application: tasks interleave    *)
(* only where a coroutine really suspends.  EventBus.publish, subscribe    *)
(* and _unsubscribe take an asyncio.Lock whose critical sections contain   *)
(* no await, so the lock is never contended and none of the three ever     *)
(* suspends: each is one atomic step, locked section and fan-out together. *)
(* SessionRunner suspends in run_agent_once, in registry.execute and in    *)
(* self._decisions.get(); cancel(), submit_decision() and _emit() do not   *)
(* suspend.  The handler start_run contains no await.  One action of the   *)
(* model is one such atomic stretch of code.                               *)
(*                                                                         *)
(* Specifications: SpecBus (clients of the bus), Spec (one run, the        *)
(* reasoning step being anything that returns calls, a final text or       *)
(* raises), SpecAllow (one run with the reasoning step of                  *)
(* langgraph_agent.py and an allow-list), SpecApi (start_run requests),   *)
(* SpecTools (one run whose tools can raise), SpecLive (one run that is    *)
(* served, with fairness), SpecConsumer (bus clients with consumers that   *)
(* wait), SpecStream (a viewer of the event stream of a run), SpecLoop     *)
(* (one run next to other users of the event loop, the awaits of           *)
(* run_agent_once and registry.execute taken as the code runs them: the    *)
(* Azure client and the tools are synchronous, so the loop is held until   *)
(* they return) and SpecScore (devops_agent/scorer.py).                    *)
(***************************************************************************)
EXTENDS Integers, Sequences, FiniteSets, TLC

\* ---------------------------------------------------------------- bounds
QueueSize == 2          \* subscriber_queue_size given to EventBus()
HistorySize == 3        \* history_size given to EventBus()
MaxPublish == 4         \* publishes to topic "t" by the bus clients
MaxOtherPublish == 1    \* publishes to the other topic by the bus clients
MaxSteps == 2           \* max_steps given to SessionRunner()
MaxBatch == 2           \* tool calls the reasoning step proposes at once
MaxDecisions == 2       \* submit_decision() calls
MaxCancels == 2         \* cancel() calls
MaxRequests == 3        \* start_run requests
MaxRunEvents == 1       \* events a background run emits before it ends
TimeSpan == 2           \* seconds around the speed limit given to calculate_score
MaxCommits == 80        \* commit counts given to calculate_score

SessionId == "s1"
SessionTopic == "session:s1"
Topics == {"t", SessionTopic}
SubIds == {1, 2}
ApiSessions == {"s1", "s2"}
NoSince == -1           \* since_id = None
UnknownCall == 0         \* a call id no ToolCall has

\* ------------------------------------------------------------- variables
VARIABLES
    seq,        \* EventBus._seq      : topic -> last id assigned
    history,    \* EventBus._history  : topic -> bounded deque of envelopes
    subs,       \* EventBus._subs     : topic -> list of registered queues
    queue,      \* the asyncio.Queue of each subscription
    closed,     \* EventSubscription._closed, "none" before subscribe()
    subinfo,    \* arguments and bus position of each subscribe() call
    returned,   \* topic -> ids of the envelopes publish() returned, in order
    got,        \* envelopes each consumer obtained from next()
    dropped,    \* envelopes a queue lost in _put_drop_oldest
    waiting,    \* the subscriptions whose consumer is suspended in queue.get()
    stream,     \* stream_events, per subscription: whether gen() has started, its
                \* since and the rows it sent from the store
    auto_approve,   \* SessionRunner.auto_approve
    pc,         \* where run() is: "init" before it starts, "agent" / "exec_auto" /
                \* "exec_dec" / "decide" at its four awaits, "done" once returned
    step,       \* the local step of run()
    pending,    \* SessionRunner._pending (the call ids)
    decisions,  \* SessionRunner._decisions
    cancel_set, \* SessionRunner._cancel
    cur,        \* the call registry.execute is running
    batch,      \* calls of the auto-approved batch still to execute
    ncalls,     \* tool calls created so far (each gets a fresh uuid)
    statuses,   \* every status written for the run, create_run first
    emitted,    \* every event the runner passed to _emit, in order
    executed,   \* calls handed to registry.execute, in order
    consumed,   \* decisions the decision loop took from the queue
    agentlog,   \* what each call of run_agent_once returned
    ncancel,    \* cancel() calls so far
    nsubmit,    \* submit_decision() calls so far
    allowed_tools,  \* SessionRunner.allowed_tools, {} for None or an empty list
    azure,      \* whether the Azure OpenAI environment is configured
    user_text,  \* the user_text given to run()
    names,      \* the tool name of each call created so far
    stored,     \* the rows of the events table of the store
    raised,     \* whether run() raised to its caller
    total_time_seconds, \* calculate_score: its first argument
    commit_count,       \* calculate_score: its second argument
    score,      \* what calculate_score returned
    sessions,   \* the ids of the sessions table of the store
    runners,    \* app.state.runners: session id -> the run of its SessionRunner
    runs,       \* the runs table of the store, with each run's background task
    responses   \* the answers start_run gave, in order

busvars == <<seq, history, subs, queue, closed, subinfo, returned, got, dropped, waiting,
             stream>>
runvars == <<auto_approve, pc, step, pending, decisions, cancel_set, cur, batch, ncalls,
             statuses, emitted, executed, consumed, agentlog, ncancel, nsubmit,
             allowed_tools, azure, user_text, names, stored, raised,
             total_time_seconds, commit_count, score>>
cfgvars == <<allowed_tools, azure, user_text, total_time_seconds, commit_count, score>>
apivars == <<sessions, runners, runs, responses>>
vars == <<seq, history, subs, queue, closed, subinfo, returned, got, dropped, waiting, stream,
          auto_approve, pc, step, pending, decisions, cancel_set, cur, batch, ncalls,
          statuses, emitted, executed, consumed, agentlog, ncancel, nsubmit,
          allowed_tools, azure, user_text, names, stored, raised,
          total_time_seconds, commit_count, score,
          sessions, runners, runs, responses>>

\* ------------------------------------------------------ EventMeta / ids
RECURSIVE IntToStr(_)
\* str(event_id): the decimal digits of a non-negative integer
IntToStr(n) == IF n < 10 THEN <<n>> ELSE IntToStr(n \div 10) \o <<n % 10>>

RECURSIVE StrToInt(_)
\* int(e.meta.id): the integer a sequence of decimal digits denotes
StrToInt(s) ==
    IF Len(s) = 0 THEN 0
    ELSE 10 * StrToInt(SubSeq(s, 1, Len(s) - 1)) + s[Len(s)]

\* EventEnvelope(meta=EventMeta.new(event_id=eid, ...), type=type, data=data)
EventEnvelope(eid, type, data) == [id |-> IntToStr(eid), type |-> type, data |-> data]

Ids(envs) == [i \in 1..Len(envs) |-> StrToInt(envs[i].id)]

\* ------------------------------------------------------------- EventBus
\* The bus as one value, so that a handler that publishes several events
\* threads it through its calls.
Bus == [seq |-> seq, history |-> history, subs |-> subs, queue |-> queue,
        returned |-> returned, dropped |-> dropped]

\* the counter incremented and the id taken one past it
next_seq_twice(n) == n + 2

\* self._seq[topic] += 1; eid = self._seq[topic]
next_seq(n) == n + 1

\* a full history is emptied before the new envelope is kept
history_append_clear(h, env) ==
    IF Len(h) >= HistorySize THEN <<env>> ELSE Append(h, env)

\* deque(maxlen=history_size).append(env)
history_append(h, env) ==
    IF Len(h) >= HistorySize THEN Tail(h) \o <<env>> ELSE Append(h, env)

\* q.full()
full(q) == Len(q) >= QueueSize

\* a full queue refuses the new envelope instead of giving up its oldest
put_drop_newest(q, env) == IF full(q) THEN q ELSE Append(q, env)

\* the queue hands out the newest envelope first (a LifoQueue)
put_lifo(q, env) ==
    LET q1 == IF full(q) /\ Len(q) > 0 THEN SubSeq(q, 1, Len(q) - 1) ELSE q
    IN  IF full(q1) THEN q1 ELSE <<env>> \o q1

\* EventBus._put_drop_oldest
put_drop_oldest(q, env) ==
    LET q1 == IF full(q) /\ Len(q) > 0 THEN Tail(q) ELSE q
    IN  IF full(q1) THEN q1 ELSE Append(q1, env)

\* what _put_drop_oldest loses: the oldest when full, the newest if still full
lost(q) == IF full(q) THEN 1 ELSE 0

RECURSIVE fanout(_, _, _, _)
\* only the first subscriber of the topic is served
fanout_first(qs, dr, queues, env) ==
    IF Len(queues) = 0 THEN [queue |-> qs, dropped |-> dr]
    ELSE [queue |-> [qs EXCEPT ![Head(queues)] = put_drop_oldest(qs[Head(queues)], env)],
          dropped |-> [dr EXCEPT ![Head(queues)] = dr[Head(queues)] + lost(qs[Head(queues)])]]

\* for q in queues: self._put_drop_oldest(q, env)
fanout(qs, dr, queues, env) ==
    IF Len(queues) = 0 THEN [queue |-> qs, dropped |-> dr]
    ELSE LET s == Head(queues)
         IN  fanout([qs EXCEPT ![s] = put_drop_oldest(qs[s], env)],
                    [dr EXCEPT ![s] = dr[s] + lost(qs[s])],
                    Tail(queues), env)

\* one counter for all topics: every topic's counter moves to the new id
publish_shared_seq(b, topic, type, data) ==
    LET eid == next_seq(b.seq[topic])
        env == EventEnvelope(eid, type, data)
        queues == b.subs[topic]
        f == fanout(b.queue, b.dropped, queues, env)
    IN  [seq |-> [t \in Topics |-> eid],
         history |-> [b.history EXCEPT ![topic] = history_append(b.history[topic], env)],
         subs |-> b.subs,
         queue |-> f.queue,
         returned |-> [b.returned EXCEPT ![topic] = Append(b.returned[topic], env.id)],
         dropped |-> f.dropped]

\* EventBus.publish: the bus after the call (the envelope returned is the
\* last entry of returned[topic])
publish(b, topic, type, data) ==
    LET eid == next_seq(b.seq[topic])
        env == EventEnvelope(eid, type, data)
        queues == b.subs[topic]
        f == fanout(b.queue, b.dropped, queues, env)
    IN  [seq |-> [b.seq EXCEPT ![topic] = eid],
         history |-> [b.history EXCEPT ![topic] = history_append(b.history[topic], env)],
         subs |-> b.subs,
         queue |-> f.queue,
         returned |-> [b.returned EXCEPT ![topic] = Append(b.returned[topic], env.id)],
         dropped |-> f.dropped]

\* the replay taken with >= : the event since_id itself is sent again
replay_events_ge(h, since_id, replay) ==
    IF replay /\ since_id # NoSince
    THEN SelectSeq(h, LAMBDA e : StrToInt(e.id) >= since_id)
    ELSE <<>>

\* the whole history is replayed to every new subscription
replay_events_always(h, since_id, replay) == h

\* [e for e in self._history.get(topic, []) if int(e.meta.id) > int(since_id)]
replay_events(h, since_id, replay) ==
    IF replay /\ since_id # NoSince
    THEN SelectSeq(h, LAMBDA e : StrToInt(e.id) > since_id)
    ELSE <<>>

RECURSIVE enqueue(_, _)
\* the replay is handed over whole, whatever the capacity of the mailbox
enqueue_unbounded(q, evs) == q \o evs

\* for e in replay_events: self._put_drop_oldest(q, e)
enqueue(q, evs) ==
    IF Len(evs) = 0 THEN q ELSE enqueue(put_drop_oldest(q, Head(evs)), Tail(evs))

RECURSIVE enqueue_lost(_, _)
enqueue_lost(q, evs) ==
    IF Len(evs) = 0 THEN 0
    ELSE lost(q) + enqueue_lost(put_drop_oldest(q, Head(evs)), Tail(evs))

\* the queue stays in the list
remove_none(l, s) == l

\* self._subs[topic].remove(queue), ValueError ignored
remove(l, s) ==
    IF \E i \in 1..Len(l) : l[i] = s
    THEN LET i == CHOOSE j \in 1..Len(l) : l[j] = s /\ \A k \in 1..(j - 1) : l[k] # s
         IN  SubSeq(l, 1, i - 1) \o SubSeq(l, i + 1, Len(l))
    ELSE l

\* ------------------------------------------------------------- Init
BusInit ==
    /\ seq = [t \in Topics |-> 0]
    /\ history = [t \in Topics |-> <<>>]
    /\ subs = [t \in Topics |-> <<>>]
    /\ queue = [s \in SubIds |-> <<>>]
    /\ closed = [s \in SubIds |-> "none"]
    /\ subinfo = [s \in SubIds |-> [topic |-> "t", since |-> NoSince, at |-> 0, oldest |-> 0]]
    /\ returned = [t \in Topics |-> <<>>]
    /\ got = [s \in SubIds |-> <<>>]
    /\ dropped = [s \in SubIds |-> 0]
    /\ waiting = {}
    /\ stream = [s \in SubIds |-> [started |-> FALSE, since |-> NoSince, rows |-> <<>>]]

\* SessionRunner.__init__ with store.create_run (status "starting")
RunInit(auto) ==
    /\ auto_approve = auto
    /\ pc = "init"
    /\ step = 0
    /\ pending = {}
    /\ decisions = <<>>
    /\ cancel_set = FALSE
    /\ cur = 0
    /\ batch = <<>>
    /\ ncalls = 0
    /\ statuses = <<"starting">>
    /\ emitted = <<>>
    /\ executed = <<>>
    /\ consumed = <<>>
    /\ agentlog = <<>>
    /\ ncancel = 0
    /\ nsubmit = 0
    /\ names = <<>>
    /\ stored = <<>>
    /\ raised = FALSE

\* the allowed_tools given to SessionRunner(), the environment run_agent_once
\* reads and the user_text given to run()
AgentConfig(allowed, az, text) ==
    /\ allowed_tools = allowed
    /\ azure = az
    /\ user_text = text

\* calculate_score has not been called
NotScored ==
    [base_score |-> -1, speed_bonus |-> -1, efficiency_penalty |-> -1, final_score |-> -1]
ScoreInput(t, c) ==
    /\ total_time_seconds = t
    /\ commit_count = c
    /\ score = NotScored
NoScoring == ScoreInput(0, 0)

\* main.py: the application starts with an empty registry (and the model
\* with an empty store)
ApiInit ==
    /\ sessions = {}
    /\ runners = <<>>
    /\ runs = <<>>
    /\ responses = <<>>

Init ==
    /\ BusInit
    /\ \E auto \in BOOLEAN : RunInit(auto)
    /\ AgentConfig({}, TRUE, <<"hi">>) /\ NoScoring
    /\ ApiInit
InitBus == BusInit /\ RunInit(FALSE) /\ AgentConfig({}, TRUE, <<"hi">>) /\ NoScoring /\ ApiInit

SetBus(b) ==
    /\ seq' = b.seq
    /\ history' = b.history
    /\ subs' = b.subs
    /\ queue' = b.queue
    /\ returned' = b.returned
    /\ dropped' = b.dropped

\* ------------------------------------------------------------- bus clients
\* the payload of an event: the fields the runner's events carry
Data(tools, n, reason) ==
    [tools |-> tools, step |-> n, reason |-> reason, text |-> <<>>, ok |-> TRUE]
NoData == Data(<<>>, 0, "none")
\* a payload with a text, a text being a sequence of strings: the text and
\* step of assistant.final, the error of run.error, the tool_id and output of
\* tool.result
TextData(tools, n, text) == [Data(tools, n, "none") EXCEPT !.text = text]

\* the clients publish type "a", then "b", then "a", ... with data {"x": k}
ClientType(k) == IF k % 2 = 1 THEN "a" ELSE "b"

\* a client of the bus calls publish(topic, type=..., data=...)
Publish(topic) ==
    /\ seq[topic] < (IF topic = "t" THEN MaxPublish ELSE MaxOtherPublish)
    /\ SetBus(publish(Bus, topic, ClientType(seq[topic] + 1), Data(<<>>, seq[topic] + 1, "none")))
    /\ UNCHANGED <<closed, subinfo, got, waiting, stream>>
    /\ UNCHANGED runvars
    /\ UNCHANGED apivars

\* EventBus.subscribe(topic, since_id=since, replay=replay)
Subscribe(s, topic, since, replay) ==
    /\ closed[s] = "none"
    /\ \A r \in SubIds : r < s => closed[r] # "none"
    /\ LET evs == replay_events(history[topic], since, replay)
       IN  /\ subs' = [subs EXCEPT ![topic] = Append(subs[topic], s)]
           /\ queue' = [queue EXCEPT ![s] = enqueue(<<>>, evs)]
           /\ dropped' = [dropped EXCEPT ![s] = enqueue_lost(<<>>, evs)]
    /\ closed' = [closed EXCEPT ![s] = "open"]
    /\ subinfo' = [subinfo EXCEPT ![s] =
            [topic |-> topic, since |-> IF replay THEN since ELSE NoSince,
             at |-> seq[topic], oldest |-> seq[topic] - Len(history[topic])]]
    /\ UNCHANGED <<seq, history, returned, got, waiting, stream>>
    /\ UNCHANGED runvars
    /\ UNCHANGED apivars

\* EventSubscription.next(): an envelope is taken from the queue; on a closed
\* subscription, or on a timeout with an empty queue, it returns None.  A
\* consumer that was suspended in queue.get() is woken by the envelope.
SubNext(s) ==
    /\ closed[s] = "open"
    /\ Len(queue[s]) > 0
    /\ waiting' = waiting \ {s}
    /\ got' = [got EXCEPT ![s] = Append(got[s], Head(queue[s]))]
    /\ queue' = [queue EXCEPT ![s] = Tail(queue[s])]
    /\ UNCHANGED <<seq, history, subs, closed, subinfo, returned, dropped, stream>>
    /\ UNCHANGED runvars
    /\ UNCHANGED apivars

\* EventSubscription.close() with EventBus._unsubscribe
Close(s) ==
    /\ closed[s] # "none"
    /\ IF closed[s] = "closed"
       THEN UNCHANGED <<closed, subs>>
       ELSE /\ closed' = [closed EXCEPT ![s] = "closed"]
            /\ subs' = [subs EXCEPT ![subinfo[s].topic] = remove(subs[subinfo[s].topic], s)]
    /\ UNCHANGED <<seq, history, queue, subinfo, returned, got, dropped, waiting, stream>>
    /\ UNCHANGED runvars
    /\ UNCHANGED apivars

\* EventSubscription.events() / next() without timeout: the subscription is
\* not closed and its queue is empty, so the consumer suspends in
\* await self._queue.get()
Park(s) ==
    /\ closed[s] = "open"
    /\ queue[s] = <<>>
    /\ s \notin waiting
    /\ waiting' = waiting \cup {s}
    /\ UNCHANGED <<seq, history, subs, queue, closed, subinfo, returned, got, dropped, stream>>
    /\ UNCHANGED runvars
    /\ UNCHANGED apivars

NextBus ==
    \/ \E topic \in Topics : Publish(topic)
    \/ \E s \in SubIds, topic \in Topics, since \in {NoSince} \cup (0..MaxPublish),
          replay \in BOOLEAN : Subscribe(s, topic, since, replay)
    \/ \E s \in SubIds : SubNext(s)
    \/ \E s \in SubIds : Close(s)

SpecBus == InitBus /\ [][NextBus]_vars

\* the clients of the bus with consumers that wait for the next envelope;
\* the subscriptions are taken without replay
NextConsumer ==
    \/ \E topic \in Topics : Publish(topic)
    \/ \E s \in SubIds, topic \in Topics : Subscribe(s, topic, NoSince, FALSE)
    \/ \E s \in SubIds : Park(s)
    \/ \E s \in SubIds : SubNext(s)
    \/ \E s \in SubIds : Close(s)

SpecConsumer == InitBus /\ [][NextConsumer]_vars

\* ------------------------------------------------------------- SessionRunner
\* The runner-owned state as one value; out collects the events the code
\* passes to _emit during one atomic stretch, in order.
Runner == [pc |-> pc, step |-> step, pending |-> pending, cur |-> cur, batch |-> batch,
           statuses |-> statuses, executed |-> executed, raised |-> raised, out |-> <<>>]

\* SessionRunner._emit: store.add_event, then bus.publish on the session topic
emit(r, type, data) == [r EXCEPT !.out = Append(@, [type |-> type, data |-> data])]

\* Store.update_run_status
update_run_status(r, status) == [r EXCEPT !.statuses = Append(@, status)]

\* the end of the run is recorded by the status alone, without an event
completion_silent(r) ==
    [update_run_status(r, IF cancel_set THEN "cancelled" ELSE "completed") EXCEPT !.pc = "done"]

\* run(), "Completion": the cancelled / completed branch after the loop
completion(r) ==
    IF cancel_set
    THEN [emit(update_run_status(r, "cancelled"), "run.cancelled", NoData) EXCEPT !.pc = "done"]
    ELSE [emit(update_run_status(r, "completed"), "run.completed", Data(<<>>, r.step, "none"))
            EXCEPT !.pc = "done"]

\* what the store does while the except branch of run() records a failure:
\* it works, or update_run_status raises, or add_event raises
Faults == {"none", "update_run_status", "add_event"}

\* str(e) of the exception the reasoning step raises
ErrorText == <<"boom">>

\* the failure is recorded by the status alone, without the run.error event
failed_silent(r, fault) == [update_run_status(r, "failed") EXCEPT !.pc = "done"]

\* run(), the except branch; an exception raised inside it leaves run()
failed(r, fault) ==
    IF fault = "update_run_status"
    THEN [r EXCEPT !.pc = "done", !.raised = TRUE]
    ELSE IF fault = "add_event"
    THEN [update_run_status(r, "failed") EXCEPT !.pc = "done", !.raised = TRUE]
    ELSE [emit(update_run_status(r, "failed"), "run.error", TextData(<<>>, 0, ErrorText))
            EXCEPT !.pc = "done"]

\* the loop is entered once more when the step budget is used up
loop_test_le(n) == n <= MaxSteps /\ ~cancel_set

\* run(): while step < self.max_steps and not self._cancel.is_set()
loop_test(n) == n < MaxSteps /\ ~cancel_set

\* run(), the head of the while loop up to the await of run_agent_once
loop_head(r) ==
    IF loop_test(r.step)
    THEN [emit([r EXCEPT !.step = @ + 1], "run.step.started", Data(<<>>, r.step + 1, "none"))
            EXCEPT !.pc = "agent"]
    ELSE completion(r)

\* the status is written back to running without the run.resumed event
resume_silent(r) ==
    IF r.pending = {} THEN update_run_status(r, "running") ELSE r

\* _handle_decisions_loop: if not self._pending, status running and run.resumed
resume(r) ==
    IF r.pending = {}
    THEN emit(update_run_status(r, "running"), "run.resumed", NoData)
    ELSE r

\* the decision loop is left at once, whatever is pending
decisions_loop_left(r) == loop_head(resume(r))

\* _handle_decisions_loop, the head of its while loop: wait for a decision,
\* or leave the loop, return to run() and continue its loop
decisions_loop(r) ==
    IF r.pending # {} /\ ~cancel_set
    THEN [r EXCEPT !.pc = "decide"]
    ELSE loop_head(resume(r))

\* the run is marked paused before each execution
start_execute_paused(r, call, where) ==
    [update_run_status(r, "paused") EXCEPT !.pc = where, !.cur = call,
                                           !.executed = Append(@, call)]

\* _execute_tool up to its await of registry.execute
start_execute(r, call, where) ==
    [r EXCEPT !.pc = where, !.cur = call, !.executed = Append(@, call)]

\* the tools of ToolRegistry()
ToolNames == {"echo", "read_file", "write_file"}

\* ToolRegistry.filter_allowed: the tools of self.registry
filter_allowed(allowed) == IF allowed = {} THEN ToolNames ELSE ToolNames \cap allowed

\* what tool.run does: it returns its output or raises
ToolOutcomes == {"returns", "raises"}

ToolResult(ok, output) == [ok |-> ok, output |-> output]

\* ToolRegistry.execute for a tool of this name: never raises
execute(name, outcome) ==
    IF name \notin filter_allowed(allowed_tools)
    THEN ToolResult(FALSE, <<"Unknown tool: ", name>>)
    ELSE IF outcome = "raises" THEN ToolResult(FALSE, <<"Exception">>)
    ELSE ToolResult(TRUE, <<"output">>)

\* the payload of tool.result: tool_id, ok, output
ResultData(call, result) ==
    [TextData(<<call>>, 0, result.output) EXCEPT !.ok = result.ok]

\* the exception of the tool reaches run() and its except branch
tool_result_raising(r, outcome) ==
    IF outcome = "raises" THEN failed(r, "none")
    ELSE emit(r, "tool.result", ResultData(r.cur, execute(names[r.cur], outcome)))

\* _execute_tool after registry.execute returned
tool_result(r, outcome) ==
    emit(r, "tool.result", ResultData(r.cur, execute(names[r.cur], outcome)))

\* the resolved call stays in _pending
pending_keep(p, call) == p

\* self._pending.pop(call.id, None)
pending_pop(p, call) == p \ {call}

\* every decision is taken for an approval
always_approve(d) == TRUE

\* decision.decision == "approve"
is_approve(d) == d.decision = "approve"

RECURSIVE publish_all(_, _)
\* the bus after the events of out were published on the session topic
publish_all(b, out) ==
    IF Len(out) = 0 THEN b
    ELSE CHOOSE after \in {publish_all(publish(before, SessionTopic, Head(out).type,
                                               Head(out).data), Tail(out)) : before \in {b}} : TRUE

\* a NULL column value
None == "None"
\* the LIMIT of list_events_since
RowLimit == 500

\* Store.add_event: INSERT OR IGNORE, a row that violates NOT NULL or repeats
\* a primary key is skipped without an error (session_id, type and
\* payload_json are strings at every call; ts_ms is the column that can be NULL)
add_event(rows, session_id, event_id, type, payload_json, ts_ms) ==
    IF ts_ms = None
    THEN rows
    ELSE IF event_id # None /\ \E i \in 1..Len(rows) : rows[i].id = event_id
    THEN rows
    ELSE Append(rows, [id |-> event_id, session_id |-> session_id, type |-> type,
                       payload_json |-> payload_json, ts_ms |-> ts_ms])

\* Store.list_events_since (rows of equal ts_ms in insertion order)
list_events_since(rows, session_id, since_ts_ms) ==
    LET sel == SelectSeq(rows, LAMBDA w : w.session_id = session_id /\ w.ts_ms >= since_ts_ms)
    IN  SubSeq(sel, 1, IF Len(sel) < RowLimit THEN Len(sel) ELSE RowLimit)

RECURSIVE add_all(_, _)
\* the events table after _emit called add_event for each event of out:
\* add_event(self.session_id, None, type_, json.dumps(data), None)
add_all(rows, out) ==
    IF Len(out) = 0 THEN rows
    ELSE add_all(add_event(rows, SessionId, None, Head(out).type, Head(out).data, None),
                 Tail(out))

\* the state the runner has reached is written back: r is evaluated once
SetRunner(r) ==
    \E now \in {r} :
        /\ pc' = now.pc
        /\ step' = now.step
        /\ pending' = now.pending
        /\ cur' = now.cur
        /\ batch' = now.batch
        /\ statuses' = now.statuses
        /\ executed' = now.executed
        /\ raised' = now.raised
        /\ emitted' = emitted \o now.out
        /\ stored' = add_all(stored, now.out)
        /\ \E b \in {publish_all(Bus, now.out)} : SetBus(b)
        /\ UNCHANGED <<closed, subinfo, got, waiting, stream>>

\* run(): from its start to the first await of run_agent_once
RunStart ==
    /\ pc = "init"
    /\ LET r1 == emit(update_run_status(Runner, "running"), "run.started", NoData)
           r2 == emit(r1, "assistant.user_message", NoData)
       IN  SetRunner(loop_head([r2 EXCEPT !.step = 0]))
    /\ UNCHANGED <<auto_approve, decisions, cancel_set, ncalls, consumed, agentlog,
                   ncancel, nsubmit, names>>
    /\ UNCHANGED cfgvars
    /\ UNCHANGED apivars

\* what run_agent_once can do: return n tool calls, with or without a final
\* text, or raise
AgentResults ==
    [tools : 0..MaxBatch, final : BOOLEAN, raises : {FALSE}]
        \cup {[tools |-> 0, final |-> FALSE, raises |-> TRUE]}

\* the calls of a result: fresh ids, as _make_tool_call gives each a new uuid
NewCalls(n) == [i \in 1..n |-> ncalls + i]

\* a turn without calls and without a final answer ends the run
no_op_turn_ends(r) == completion(r)

\* run(): neither branch is taken, the while loop goes to its next test
no_op_turn(r) == loop_head(r)

\* a final text is emitted first, whatever calls come with it
AgentStepFinalFirst(pending_names, final, raises) ==
    /\ ncalls' = ncalls + Len(pending_names)
    /\ names' = names \o pending_names
    /\ LET pending_tools == NewCalls(Len(pending_names))
           r0 == Runner
       IN  IF raises THEN \E fault \in Faults : SetRunner(failed(r0, fault))
           ELSE IF final # <<>>
           THEN SetRunner(completion(emit(r0, "assistant.final", TextData(<<>>, r0.step, final))))
           ELSE IF Len(pending_tools) > 0
           THEN LET r1 == [r0 EXCEPT !.pending = @ \cup {pending_tools[i] : i \in 1..Len(pending_tools)}]
                    r2 == emit(r1, "tool.calls.proposed", Data(pending_tools, r0.step, "none"))
                IN  IF ~auto_approve
                    THEN SetRunner(decisions_loop(
                            emit(update_run_status(r2, "paused"), "run.paused",
                                 Data(<<>>, r0.step, "none"))))
                    ELSE SetRunner(start_execute([r2 EXCEPT !.batch = Tail(pending_tools)],
                                                 Head(pending_tools), "exec_auto"))
           ELSE IF final # <<>>
           THEN SetRunner(completion(emit(r0, "assistant.final", TextData(<<>>, r0.step, final))))
           ELSE SetRunner(no_op_turn(r0))

\* run() from the return of run_agent_once to the next await: the calls of
\* pending_names were proposed, final is the final text (<<>> for none)
AgentStep(pending_names, final, raises) ==
    /\ ncalls' = ncalls + Len(pending_names)
    /\ names' = names \o pending_names
    /\ LET pending_tools == NewCalls(Len(pending_names))
           r0 == Runner
       IN  IF raises THEN \E fault \in Faults : SetRunner(failed(r0, fault))
           ELSE IF Len(pending_tools) > 0
           THEN LET r1 == [r0 EXCEPT !.pending = @ \cup {pending_tools[i] : i \in 1..Len(pending_tools)}]
                    r2 == emit(r1, "tool.calls.proposed", Data(pending_tools, r0.step, "none"))
                IN  IF ~auto_approve
                    THEN SetRunner(decisions_loop(
                            emit(update_run_status(r2, "paused"), "run.paused",
                                 Data(<<>>, r0.step, "none"))))
                    ELSE SetRunner(start_execute([r2 EXCEPT !.batch = Tail(pending_tools)],
                                                 Head(pending_tools), "exec_auto"))
           ELSE IF final # <<>>
           THEN SetRunner(completion(emit(r0, "assistant.final", TextData(<<>>, r0.step, final))))
           ELSE SetRunner(no_op_turn(r0))

\* run(): the reasoning step, whatever it is, returns (or raises)
AgentReturns(res) ==
    /\ pc = "agent"
    /\ agentlog' = Append(agentlog, res)
    /\ AgentStep([i \in 1..res.tools |-> "read_file"],
                 IF res.final THEN <<"text">> ELSE <<>>, res.raises)
    /\ UNCHANGED <<auto_approve, decisions, cancel_set, consumed, ncancel, nsubmit>>
    /\ UNCHANGED cfgvars
    /\ UNCHANGED apivars

\* what the Azure chat completion gives _call_azure_chat: tool calls by
\* name, a content, or an error
LLMNames == {"read_file", "write_file"}
LLMOutputs ==
    [kind : {"tool_calls"}, tool_calls : UNION {[1..n -> LLMNames] : n \in 1..MaxBatch},
     content : {<<>>}]
        \cup [kind : {"content"}, tool_calls : {<<>>}, content : {<<>>, <<"answer">>}]
        \cup [kind : {"error"}, tool_calls : {<<>>}, content : {<<>>}]
\* no completion is requested
NoOutput == [kind |-> "content", tool_calls |-> <<>>, content |-> <<>>]

\* re.match(r"^write\s+(?P<path>[^:]+)::(?P<content>[\s\S]*)$", user_text), the
\* text given by its words
is_write(text) == Len(text) >= 3 /\ text[1] = "write" /\ text[2] # "::" /\ text[3] = "::"
\* re.match(r"^read\s+(?P<path>.+)$", user_text)
is_read(text) == Len(text) >= 2 /\ text[1] = "read"

\* the first tool call whose name the allow-list does not hold, 0 if none
first_disallowed(calls, allowed) ==
    IF allowed # {} /\ \E i \in 1..Len(calls) : calls[i] \notin allowed
    THEN CHOOSE i \in 1..Len(calls) :
            calls[i] \notin allowed /\ \A j \in 1..(i - 1) : calls[j] \in allowed
    ELSE 0

NotAllowedText(name) == <<"Tool is not allowed: ", name>>
State(pending_tools, final) == [pending_tools |-> pending_tools, final |-> final]

\* run_agent_once(user_text=text, allowed_tools=allowed), out being what the
\* chat completion gives when Azure is configured
run_agent_once(text, allowed, out) ==
    IF ~azure
    THEN IF is_write(text) THEN State(<<"write_file">>, <<>>)
         ELSE IF is_read(text) THEN State(<<"read_file">>, <<>>)
         ELSE State(<<>>, <<"Echo: ">> \o text)
    ELSE IF out.kind = "error" THEN State(<<>>, <<"LLM error">>)
    ELSE IF out.kind = "tool_calls"
    THEN IF first_disallowed(out.tool_calls, allowed) # 0
         THEN State(<<>>, NotAllowedText(out.tool_calls[first_disallowed(out.tool_calls, allowed)]))
         ELSE State(out.tool_calls, <<>>)
    ELSE State(<<>>, IF out.content # <<>> THEN out.content ELSE <<"I have no output.">>)

\* run(): run_agent_once returns; up to the next await
AgentOnce(out) ==
    /\ pc = "agent"
    /\ LET state == run_agent_once(user_text, allowed_tools, out)
       IN  /\ agentlog' = Append(agentlog, [tools |-> Len(state.pending_tools),
                                            final |-> state.final # <<>>, raises |-> FALSE])
           /\ AgentStep(state.pending_tools, state.final, FALSE)
    /\ UNCHANGED <<auto_approve, decisions, cancel_set, consumed, ncancel, nsubmit>>
    /\ UNCHANGED cfgvars
    /\ UNCHANGED apivars

\* run(), auto-approve branch: registry.execute returns for one call of the
\* batch, the tool having returned or raised
ExecAuto(outcome) ==
    /\ pc = "exec_auto"
    /\ LET r1 == tool_result(Runner, outcome)
       IN  IF Len(r1.batch) > 0
           THEN SetRunner(start_execute([r1 EXCEPT !.batch = Tail(@)], Head(r1.batch), "exec_auto"))
           ELSE SetRunner(loop_head([r1 EXCEPT !.cur = 0]))
    /\ UNCHANGED <<auto_approve, decisions, cancel_set, ncalls, consumed, agentlog,
                   ncancel, nsubmit, names>>
    /\ UNCHANGED cfgvars
    /\ UNCHANGED apivars

\* _handle_decisions_loop: self._decisions.get() returns a decision
Decide ==
    /\ pc = "decide"
    /\ Len(decisions) > 0
    /\ LET decision == Head(decisions)
           call == decision.call_id
       IN  /\ decisions' = Tail(decisions)
           /\ consumed' = Append(consumed, decision)
           /\ IF call \notin pending
              THEN SetRunner(decisions_loop(Runner))
              ELSE IF is_approve(decision)
              THEN SetRunner(start_execute(
                      emit(Runner, "tool.call.approved", Data(<<call>>, 0, "none")),
                      call, "exec_dec"))
              ELSE SetRunner(decisions_loop(
                      [emit(Runner, "tool.call.rejected", Data(<<call>>, 0, decision.reason))
                         EXCEPT !.pending = pending_pop(@, call)]))
    /\ UNCHANGED <<auto_approve, cancel_set, ncalls, agentlog, ncancel, nsubmit, names>>
    /\ UNCHANGED cfgvars
    /\ UNCHANGED apivars

\* the tool of the auto-approved call returned / raised.  Whether a tool
\* returns or raises changes the payload of tool.result and nothing else, so
\* the specifications that are not about tool failures take the first only.
ExecAutoReturns == ExecAuto("returns")
ExecAutoRaises == ExecAuto("raises")

\* _handle_decisions_loop: registry.execute returns for the approved call,
\* the tool having returned or raised
ExecDec(outcome) ==
    /\ pc = "exec_dec"
    /\ LET r1 == tool_result(Runner, outcome)
       IN  SetRunner(decisions_loop([r1 EXCEPT !.pending = pending_pop(@, r1.cur), !.cur = 0]))
    /\ UNCHANGED <<auto_approve, decisions, cancel_set, ncalls, consumed, agentlog,
                   ncancel, nsubmit, names>>
    /\ UNCHANGED cfgvars
    /\ UNCHANGED apivars

ExecDecReturns == ExecDec("returns")
ExecDecRaises == ExecDec("raises")

\* SessionRunner.cancel
Cancel ==
    /\ ncancel < MaxCancels
    /\ ncancel' = ncancel + 1
    /\ cancel_set' = TRUE
    /\ SetRunner(emit(update_run_status(Runner, "cancelled"), "run.cancelled", NoData))
    /\ UNCHANGED <<auto_approve, decisions, ncalls, consumed, agentlog, nsubmit, names>>
    /\ UNCHANGED cfgvars
    /\ UNCHANGED apivars

\* the ids a submitted decision can name: a call that is pending, or an id
\* that is not.  An id that is not pending when the decision is submitted
\* never becomes pending (every call gets a fresh id), so UnknownCall stands
\* for all of them.  Under auto-approval run() never reads _decisions and no
\* id is ever looked up, so UnknownCall stands for every id there.
DecisionTargets == IF auto_approve THEN {UnknownCall} ELSE pending \cup {UnknownCall}

\* the decisions a client can submit; a rejection carries a reason
Decisions ==
    [call_id : DecisionTargets, decision : {"approve"}, reason : {"none"}]
        \cup [call_id : DecisionTargets, decision : {"reject"}, reason : {"why"}]

\* the decision is put in front of the waiting ones
decisions_put_front(q, d) == <<d>> \o q

\* self._decisions.put(decision): the queue has no maxsize, put never waits
decisions_put(q, d) == Append(q, d)

\* SessionRunner.submit_decision
SubmitDecision(d) ==
    /\ nsubmit < MaxDecisions
    /\ nsubmit' = nsubmit + 1
    /\ decisions' = decisions_put(decisions, d)
    /\ UNCHANGED busvars
    /\ UNCHANGED <<names, stored, raised>>
    /\ UNCHANGED cfgvars
    /\ UNCHANGED apivars
    /\ UNCHANGED <<auto_approve, pc, step, pending, cancel_set, cur, batch, ncalls, statuses,
                   emitted, executed, consumed, agentlog, ncancel>>

NextRun ==
    \/ RunStart
    \/ \E res \in AgentResults : AgentReturns(res)
    \/ ExecAutoReturns
    \/ Decide
    \/ ExecDecReturns
    \/ Cancel
    \/ \E d \in Decisions : SubmitDecision(d)

Spec == Init /\ [][NextRun]_vars

\* the runs with the reasoning step of langgraph_agent.py: with and without
\* an allow-list, with and without the Azure configuration
AllowLists == {{}, {"read_file"}}
UserTexts == {<<"write", "a.txt", "::", "hi">>, <<"read", "a.txt">>, <<"hi">>}

InitAllow ==
    /\ BusInit
    /\ \E auto \in BOOLEAN : RunInit(auto)
    /\ \E allowed \in AllowLists, az \in BOOLEAN, text \in UserTexts :
          AgentConfig(allowed, az, text) /\ NoScoring
    /\ ApiInit

NextAllow ==
    \/ RunStart
    \/ \E out \in (IF azure THEN LLMOutputs ELSE {NoOutput}) : AgentOnce(out)
    \/ ExecAutoReturns
    \/ Decide
    \/ ExecDecReturns
    \/ Cancel
    \/ \E d \in Decisions : SubmitDecision(d)

SpecAllow == InitAllow /\ [][NextAllow]_vars

\* the runs without the Azure configuration (the reasoning step proposes the
\* one call user_text asks for, at every step), with tools that can fail
InitTools ==
    /\ BusInit
    /\ \E auto \in BOOLEAN : RunInit(auto)
    /\ \E allowed \in AllowLists, text \in UserTexts : AgentConfig(allowed, FALSE, text) /\ NoScoring
    /\ ApiInit

NextTools ==
    \/ RunStart
    \/ AgentOnce(NoOutput)
    \/ ExecAutoReturns
    \/ ExecAutoRaises
    \/ Decide
    \/ ExecDecReturns
    \/ ExecDecRaises
    \/ Cancel
    \/ \E d \in Decisions : SubmitDecision(d)

SpecTools == InitTools /\ [][NextTools]_vars

\* ------------------------------------------------------------- start_run
\* The handler start_run contains no await: a request is one atomic step.
\* The run itself goes on in the task _bg, after the handler returned.
NotFound == 404
Conflict == 409
Ok == 200

\* no request ever finds a runner registered
registered_never(reg, sid) == FALSE

\* session_id in runners
registered(reg, sid) == sid \in DOMAIN reg

\* runners[session_id] = runner
register(reg, sid, rid) ==
    [x \in DOMAIN reg \cup {sid} |-> IF x = sid THEN rid ELSE reg[x]]

\* the entry stays in the registry
pop_keep(reg, sid) == reg

\* runners.pop(session_id, None)
pop(reg, sid) == [x \in DOMAIN reg \ {sid} |-> reg[x]]

\* Store.create_run, called by SessionRunner.__init__
create_run(rs, sid) ==
    Append(rs, [session |-> sid, status |-> "starting", events |-> 0, done |-> FALSE])

Response(sid, code) == [session |-> sid, code |-> code]

\* POST /api/sessions: create_session (the store gives a fresh id)
CreateSession(sid) ==
    /\ sid \notin sessions
    /\ sessions' = sessions \cup {sid}
    /\ UNCHANGED <<runners, runs, responses>>
    /\ UNCHANGED busvars
    /\ UNCHANGED runvars

\* POST /api/sessions/{session_id}/runs: start_run
StartRun(sid) ==
    /\ Len(responses) < MaxRequests
    /\ IF sid \notin sessions
       THEN /\ responses' = Append(responses, Response(sid, NotFound))
            /\ UNCHANGED <<runners, runs>>
       ELSE IF registered(runners, sid)
       THEN /\ responses' = Append(responses, Response(sid, Conflict))
            /\ UNCHANGED <<runners, runs>>
       ELSE /\ runs' = create_run(runs, sid)
            /\ runners' = register(runners, sid, Len(runs) + 1)
            /\ responses' = Append(responses, Response(sid, Ok))
    /\ UNCHANGED sessions
    /\ UNCHANGED busvars
    /\ UNCHANGED runvars

\* the task _bg of run rid: runner.run() goes on and emits an event
BgEmit(rid) ==
    /\ rid \in 1..Len(runs)
    /\ ~runs[rid].done
    /\ runs[rid].events < MaxRunEvents
    /\ runs' = [runs EXCEPT ![rid].events = @ + 1, ![rid].status = "running"]
    /\ UNCHANGED <<sessions, runners, responses>>
    /\ UNCHANGED busvars
    /\ UNCHANGED runvars

\* the task _bg of run rid: runner.run() returns or raises, finally: pop
BgDone(rid) ==
    /\ rid \in 1..Len(runs)
    /\ ~runs[rid].done
    /\ runs' = [runs EXCEPT ![rid].done = TRUE]
    /\ runners' = pop(runners, runs[rid].session)
    /\ UNCHANGED <<sessions, responses>>
    /\ UNCHANGED busvars
    /\ UNCHANGED runvars

InitApi == BusInit /\ RunInit(FALSE) /\ AgentConfig({}, TRUE, <<"hi">>) /\ NoScoring /\ ApiInit

NextApi ==
    \/ \E sid \in ApiSessions : CreateSession(sid)
    \/ \E sid \in ApiSessions : StartRun(sid)
    \/ \E rid \in 1..MaxRequests : BgEmit(rid)
    \/ \E rid \in 1..MaxRequests : BgDone(rid)

SpecApi == InitApi /\ [][NextApi]_vars

\* ------------------------------------------------------------- properties
Received(s) == Ids(got[s] \o queue[s])
Increasing(ids) == \A i \in 1..(Len(ids) - 1) : ids[i] < ids[i + 1]
Count(log, P(_)) == Cardinality({i \in 1..Len(log) : P(log[i])})
Last(log) == log[Len(log)]
Replaying(s) == closed[s] # "none" /\ subinfo[s].since # NoSince
\* since_id lies in the retained window: every id above it was in the history
InWindow(s) == subinfo[s].oldest <= subinfo[s].since /\ subinfo[s].since <= subinfo[s].at

\* C1: on every topic the k-th publish returns the envelope with id k, whatever
\* subscribes, closes and publishes to other topics happen in between
C1_MonotonicIds ==
    \A t \in Topics : \A k \in 1..Len(returned[t]) : returned[t][k] = IntToStr(k)

C1_Witness ==
    /\ Len(returned["t"]) = MaxPublish
    /\ Len(returned[SessionTopic]) > 0
    /\ \E s \in SubIds : closed[s] = "closed"
    /\ \E s \in SubIds : closed[s] = "open"

\* C2: a subscription with since_id = k inside the retained window whose
\* mailbox never overflowed has obtained, replay and live delivery together,
\* the ids k+1, k+2, ... in order, each once, up to the last id published
\* (up to the close for a closed subscription)
C2_ReplayComplete ==
    \A s \in SubIds :
        (Replaying(s) /\ InWindow(s) /\ dropped[s] = 0) =>
            /\ Received(s) = [i \in 1..Len(Received(s)) |-> subinfo[s].since + i]
            /\ closed[s] = "open" =>
                  Len(Received(s)) = seq[subinfo[s].topic] - subinfo[s].since

C2_Witness ==
    \E s \in SubIds :
        /\ closed[s] = "open" /\ dropped[s] = 0
        /\ subinfo[s].since = 0 /\ subinfo[s].at = 2
        /\ Len(got[s]) = 3
        /\ got[s][1].id = <<1>> /\ got[s][1].type = "a"
        /\ got[s][2].id = <<2>> /\ got[s][2].type = "b"
        /\ got[s][3].id = <<3>>

\* C3: once more than QueueSize events were published to a topic while a
\* registered subscriber never drained, its mailbox holds the QueueSize most
\* recent events, in id order
C3_DropOldest ==
    \A s \in SubIds :
        LET t == subinfo[s].topic
            h == history[t]
        IN  (closed[s] = "open" /\ got[s] = <<>> /\ seq[t] - subinfo[s].at > QueueSize) =>
                /\ Ids(queue[s]) = [i \in 1..QueueSize |-> seq[t] - QueueSize + i]
                /\ Len(h) >= QueueSize => queue[s] = SubSeq(h, Len(h) - QueueSize + 1, Len(h))

C3_Witness ==
    \E s \in SubIds :
        /\ closed[s] = "open" /\ got[s] = <<>>
        /\ seq[subinfo[s].topic] - subinfo[s].at > QueueSize
        /\ dropped[s] > 0
        /\ Len(queue[s]) = QueueSize

\* C4: a topic's history and what any subscriber receives are in increasing
\* id order: envelopes may be missing, never out of order
C4_OrderPreserved ==
    /\ \A t \in Topics : Increasing(Ids(history[t]))
    /\ \A s \in SubIds : Increasing(Received(s))

C4_Witness ==
    \E s \in SubIds :
        /\ Len(got[s]) > 0 /\ Len(queue[s]) > 1
        /\ dropped[s] > 0
        /\ Ids(queue[s])[1] > Ids(got[s])[Len(got[s])] + 1
        /\ Len(history[subinfo[s].topic]) = HistorySize

Types(log) == [i \in 1..Len(log) |-> log[i].type]
Range(f) == {f[i] : i \in DOMAIN f}
\* the call a tool.call.approved / tool.call.rejected / tool.result event is about
CallOf(e) == e.data.tools[1]
Terminal == {"completed", "cancelled", "failed"}
Live == {"starting", "running", "paused"}

\* C5: without auto-approval a call is executed only once an approve decision
\* for its id was consumed, tool.call.approved precedes its tool.result, a
\* rejected call carries the decision's reason and is never executed, and a
\* call resolved either way has left pending
C5_ApprovalGate ==
    ~auto_approve =>
        /\ \A c \in Range(executed) :
              \E d \in Range(consumed) : d.call_id = c /\ d.decision = "approve"
        /\ \A i \in 1..Len(emitted) :
              emitted[i].type = "tool.result" =>
                  /\ \E j \in 1..(i - 1) : /\ emitted[j].type = "tool.call.approved"
                                           /\ CallOf(emitted[j]) = CallOf(emitted[i])
                  /\ CallOf(emitted[i]) \notin pending
        /\ \A i \in 1..Len(emitted) :
              emitted[i].type = "tool.call.rejected" =>
                  /\ CallOf(emitted[i]) \notin Range(executed)
                  /\ CallOf(emitted[i]) \notin pending
                  /\ \E d \in Range(consumed) : /\ d.call_id = CallOf(emitted[i])
                                                /\ d.decision = "reject"
                                                /\ d.reason = emitted[i].data.reason

C5_Witness ==
    /\ ~auto_approve
    /\ \E i \in 1..Len(emitted) : emitted[i].type = "tool.result"
    /\ \E i \in 1..Len(emitted) :
          emitted[i].type = "tool.call.rejected" /\ emitted[i].data.reason = "why"
    /\ pending = {}

\* C6: a cancelled run has exactly one run.cancelled event and exactly one
\* write of the status cancelled
C6_CancelledOnce ==
    cancel_set =>
        /\ Count(emitted, LAMBDA e : e.type = "run.cancelled") = 1
        /\ Count(statuses, LAMBDA st : st = "cancelled") = 1

\* C7: cancel() on a run whose status is completed or failed changes neither
\* the persisted status nor the events persisted and published
C7_CancelAfterTerminalNoop ==
    [][(Last(statuses) \in {"completed", "failed"} /\ ncancel' # ncancel) =>
            (statuses' = statuses /\ emitted' = emitted /\ seq' = seq /\ history' = history)]_vars

StatusSteps ==
    {<<"starting", "running">>, <<"running", "paused">>, <<"paused", "running">>}
        \cup (Live \X Terminal) \cup {<<st, st>> : st \in Terminal}

\* C8: the statuses written for a run follow starting -> running ->
\* (paused <-> running)* -> terminal, and nothing different follows a
\* terminal status
C8_StatusMachine ==
    /\ statuses[1] = "starting"
    /\ \A i \in 1..(Len(statuses) - 1) : <<statuses[i], statuses[i + 1]>> \in StatusSteps

\* C9: a call that was executed (its tool.result emitted) or rejected is no
\* longer in pending
C9_ResolvedNotPending ==
    \A i \in 1..Len(emitted) :
        emitted[i].type \in {"tool.result", "tool.call.rejected"} =>
            CallOf(emitted[i]) \notin pending

\* the run of C10: no auto-approval, the reasoning step proposes one call,
\* the call is approved and executed, the next reasoning step gives a final
\* answer, and the run has returned without any cancel()
C10_Scenario ==
    /\ ~auto_approve
    /\ pc = "done"
    /\ ncancel = 0
    /\ agentlog = <<[tools |-> 1, final |-> FALSE, raises |-> FALSE],
                    [tools |-> 0, final |-> TRUE, raises |-> FALSE]>>
    /\ executed = <<1>>

\* C10 as stated: the events of that run are exactly the ten listed
C10_SequenceAsStated ==
    C10_Scenario =>
        Types(emitted) = <<"run.started", "run.step.started", "tool.calls.proposed",
                           "run.paused", "tool.call.approved", "tool.result", "run.resumed",
                           "run.step.started", "assistant.final", "run.completed">>

\* C10 amended: the events of that run are the ten listed with
\* assistant.user_message between run.started and the first run.step.started
C10_SequenceWithUserMessage ==
    C10_Scenario =>
        Types(emitted) = <<"run.started", "assistant.user_message", "run.step.started",
                           "tool.calls.proposed", "run.paused", "tool.call.approved",
                           "tool.result", "run.resumed", "run.step.started",
                           "assistant.final", "run.completed">>

C10_Witness ==
    /\ C10_Scenario
    /\ Len(emitted) = 11
    /\ consumed = <<[call_id |-> 1, decision |-> "approve", reason |-> "none"]>>
    /\ statuses = <<"starting", "running", "paused", "running", "completed">>

\* a call whose tool name is outside the run's non-empty allow-list
Disallowed(c) == allowed_tools # {} /\ names[c] \notin allowed_tools

\* C11: a call proposed with a tool name outside the non-empty allow-list is
\* never handed to the registry and gets no tool.result, and the run of such a
\* proposal (no cancel() called) ends with an assistant.final carrying the
\* not-allowed message, followed by run.completed
C11_DisallowedNeverExecuted ==
    /\ \A c \in 1..ncalls :
          Disallowed(c) =>
              /\ c \notin Range(executed)
              /\ \A i \in 1..Len(emitted) :
                    emitted[i].type = "tool.result" => CallOf(emitted[i]) # c
    /\ (pc = "done" /\ ncancel = 0 /\ \E c \in 1..ncalls : Disallowed(c)) =>
          /\ Len(emitted) >= 2
          /\ emitted[Len(emitted) - 1].type = "assistant.final"
          /\ \E c \in 1..ncalls : emitted[Len(emitted) - 1].data.text = NotAllowedText(names[c])
          /\ Last(emitted).type = "run.completed"

\* the reasoning step raised on its first call and the except branch of
\* run() could record it
C12_Scenario == Len(agentlog) > 0 /\ agentlog[1].raises /\ ~raised

\* C12: when the first call of the reasoning step raises, the run has
\* returned having published exactly one run.error, carrying str(e), no
\* tool.* event and no run.completed, and having written failed as its last
\* status (only a cancel() called after that writes another one)
C12_FirstCallRaises ==
    C12_Scenario =>
        /\ pc = "done"
        /\ Len(agentlog) = 1
        /\ Count(emitted, LAMBDA e : e.type = "run.error") = 1
        /\ \A i \in 1..Len(emitted) :
              /\ emitted[i].type = "run.error" => emitted[i].data.text = ErrorText
              /\ emitted[i].type \notin {"tool.calls.proposed", "tool.call.approved",
                                        "tool.call.rejected", "tool.result", "run.completed"}
        /\ \E i \in 1..Len(statuses) :
              /\ statuses[i] = "failed"
              /\ \A j \in (i + 1)..Len(statuses) : statuses[j] = "cancelled"
        /\ Last(emitted).type = "run.error" => Last(statuses) = "failed"

C12_Witness ==
    /\ C12_Scenario
    /\ ncancel = 0
    /\ Types(emitted) = <<"run.started", "assistant.user_message", "run.step.started",
                          "run.error">>
    /\ statuses = <<"starting", "running", "failed">>

\* the rows the range query of the store gives for the session, from the
\* earliest time
StoredEvents == list_events_since(stored, SessionId, 0)

\* C13: at every moment the store holds at least as many events of the run
\* as the bus has published on the session topic
C13_StoredBeforePublished == Len(StoredEvents) >= Len(returned[SessionTopic])

\* C14: the range query of the store gives one row per envelope published on
\* the session topic, with its type and payload, in publish order
C14_PublishedAreStored ==
    /\ Len(StoredEvents) = Len(emitted)
    /\ \A i \in 1..Len(StoredEvents) :
          /\ StoredEvents[i].type = emitted[i].type
          /\ StoredEvents[i].payload_json = emitted[i].data

\* C15: run() never raises to its caller, and once the reasoning step has
\* raised the status failed was written, also when the store fails while the
\* failure is recorded
C15_RunNeverRaises ==
    /\ ~raised
    /\ (Len(agentlog) > 0 /\ Last(agentlog).raises) => "failed" \in Range(statuses)

TerminalEvents == {"run.completed", "run.cancelled", "run.error"}

\* C16: a run that has ended (run() returned) has published exactly one
\* event among run.completed, run.cancelled and run.error, and that event is
\* the last one of the run
C16_OneTerminalEvent ==
    (pc = "done" /\ ~raised) =>
        /\ Count(emitted, LAMBDA e : e.type \in TerminalEvents) = 1
        /\ Last(emitted).type \in TerminalEvents

\* the steps run() takes by itself, once what it awaits is there
RunSteps ==
    \/ RunStart
    \/ \E res \in AgentResults : AgentReturns(res)
    \/ ExecAutoReturns
    \/ Decide
    \/ ExecDecReturns

\* C17: a run cancelled while it waits in the decision loop is not blocked:
\* with no decision in the queue and none submitted later it can still go on
\* (leave the loop and return), so a cancelled run that has not returned
\* always has a step of its own to take
C17_CancelWakesDecisionLoop ==
    (cancel_set /\ pc = "decide" /\ pending # {}) => ENABLED RunSteps

\* C18: once cancel() was called the runner starts nothing new: no step of
\* it hands a call to the registry, emits run.step.started or invokes the
\* reasoning step
C18_NothingNewAfterCancel ==
    [][cancel_set =>
          /\ executed' = executed
          /\ Count(emitted', LAMBDA e : e.type = "run.step.started")
                = Count(emitted, LAMBDA e : e.type = "run.step.started")
          /\ pc' = "agent" => pc = "agent"]_vars

StepsStarted == SelectSeq(emitted, LAMBDA e : e.type = "run.step.started")

\* C19: the step counter never exceeds max_steps: the reasoning step was
\* invoked at most max_steps times, the run.step.started events carry the
\* steps 1, 2, ... in order, max_steps at most, and run.completed reports
\* steps_used <= max_steps
C19_StepBound ==
    /\ step <= MaxSteps
    /\ Len(agentlog) <= MaxSteps
    /\ Len(agentlog) <= Len(StepsStarted)
    /\ Len(StepsStarted) <= MaxSteps
    /\ \A i \in 1..Len(StepsStarted) : StepsStarted[i].data.step = i
    /\ \A i \in 1..Len(emitted) :
          emitted[i].type = "run.completed" =>
              emitted[i].data.step <= MaxSteps /\ emitted[i].data.step = Len(StepsStarted)

C19_Witness ==
    /\ pc = "done"
    /\ step = MaxSteps
    /\ Len(agentlog) = MaxSteps
    /\ Len(StepsStarted) = MaxSteps
    /\ Last(emitted).type = "run.completed"
    /\ Last(emitted).data.step = MaxSteps
    /\ Last(agentlog).tools > 0

\* the runs of a session whose runner exists and has not ended
LiveRuns(sid) == {rid \in 1..Len(runs) : runs[rid].session = sid /\ ~runs[rid].done}

\* at most one live runner per session, and the registry holds exactly it
OneRunnerPerSession ==
    \A sid \in ApiSessions :
        /\ Cardinality(LiveRuns(sid)) <= 1
        /\ sid \in DOMAIN runners <=> LiveRuns(sid) # {}
        /\ sid \in DOMAIN runners => runners[sid] \in LiveRuns(sid)

\* C20: at most one runner per session at any moment; a start_run request for
\* a session with a registered runner is answered 409, and a request answered
\* 409 creates no Run record, no runner and no event
C20_SingleRunner ==
    [][/\ OneRunnerPerSession'
       /\ Len(responses') > Len(responses) =>
             /\ Last(responses').session \in DOMAIN runners => Last(responses').code = Conflict
             /\ Last(responses').code = Conflict =>
                   /\ Last(responses').session \in DOMAIN runners
                   /\ runs' = runs
                   /\ runners' = runners
                   /\ seq' = seq /\ history' = history /\ emitted' = emitted]_vars

C20_Witness ==
    /\ responses = <<Response("s1", Ok), Response("s1", Conflict), Response("s2", Ok)>>
    /\ DOMAIN runners = {"s1", "s2"}
    /\ Len(runs) = 2
    /\ runs[1].events > 0

\* C21: the step that consumes a decision whose call_id is not in pending
\* emits no event, executes no tool and leaves pending and the status alone
C21_StaleDecisionIgnored ==
    [][(Len(consumed') > Len(consumed) /\ Last(consumed').call_id \notin pending) =>
            /\ emitted' = emitted
            /\ executed' = executed
            /\ pending' = pending
            /\ statuses' = statuses]_vars

\* C22: each proposed call is handed to the registry at most once and has at
\* most one tool.result and at most one of tool.call.approved and
\* tool.call.rejected, whatever decisions are submitted
C22_ExecutedAtMostOnce ==
    \A c \in 1..ncalls :
        /\ Count(executed, LAMBDA x : x = c) <= 1
        /\ Count(emitted, LAMBDA e : e.type = "tool.result" /\ CallOf(e) = c) <= 1
        /\ Count(emitted, LAMBDA e : /\ e.type \in {"tool.call.approved", "tool.call.rejected"}
                                     /\ CallOf(e) = c) <= 1

\* two approvals of the same call were consumed, the call ran once
C22_Witness ==
    /\ Len(consumed) = 2
    /\ consumed[1] = consumed[2]
    /\ consumed[1].decision = "approve"
    /\ consumed[1].call_id = 1
    /\ executed = <<1>>
    /\ Count(emitted, LAMBDA e : e.type = "tool.result") = 1

ResultsOf(log) == SelectSeq(log, LAMBDA e : e.type = "tool.result")

\* C23: a failing or unknown tool does not fail the run: every execution that
\* returned has its tool.result, with ok = false for an unknown tool and for
\* a tool that raised; the status failed is never written and no run.error
\* is emitted; after the tool.result the run waits for the next execution or
\* decision or has gone on
C23_ToolFailureNotFatal ==
    /\ Len(ResultsOf(emitted)) = Len(executed) - (IF pc \in {"exec_auto", "exec_dec"} THEN 1 ELSE 0)
    /\ \A i \in 1..Len(ResultsOf(emitted)) :
          LET e == ResultsOf(emitted)[i]
          IN  /\ CallOf(e) = executed[i]
              /\ e.data.ok <=> e.data.text = <<"output">>
              /\ names[CallOf(e)] \notin filter_allowed(allowed_tools) => ~e.data.ok
    /\ "failed" \notin Range(statuses)
    /\ \A i \in 1..Len(emitted) : emitted[i].type # "run.error"
    /\ (Len(emitted) > 0 /\ Last(emitted).type = "tool.result") => pc \in {"exec_auto", "decide"}

\* a tool raised at step 1, the run went on to step 2 and completed
C23_Witness ==
    /\ pc = "done"
    /\ ncancel = 0
    /\ Len(ResultsOf(emitted)) = 2
    /\ ~ResultsOf(emitted)[1].data.ok
    /\ ResultsOf(emitted)[1].data.text = <<"Exception">>
    /\ ResultsOf(emitted)[2].data.ok
    /\ Len(StepsStarted) = 2
    /\ Last(statuses) = "completed"

\* an unknown tool was answered with ok = false and the run completed
C23_WitnessUnknown ==
    /\ pc = "done"
    /\ ncancel = 0
    /\ Len(ResultsOf(emitted)) > 0
    /\ ResultsOf(emitted)[1].data.text = <<"Unknown tool: ", "write_file">>
    /\ Last(statuses) = "completed"

\* the first run.step.started after position i of the log, Len + 1 if none
NextStepAfter(log, i) ==
    IF \E j \in (i + 1)..Len(log) : log[j].type = "run.step.started"
    THEN CHOOSE j \in (i + 1)..Len(log) :
            /\ log[j].type = "run.step.started"
            /\ \A k \in (i + 1)..(j - 1) : log[k].type # "run.step.started"
    ELSE Len(log) + 1

\* the calls of the tool.result events between positions i and j of the log
ResultCallsBetween(log, i, j) ==
    LET rs == ResultsOf(SubSeq(log, i + 1, j - 1))
    IN  [k \in 1..Len(rs) |-> CallOf(rs[k])]

\* C24: with auto-approval every batch is executed without pausing: after
\* tool.calls.proposed come the tool.result events of its calls, one each, in
\* the order proposed, all of them before the next run.step.started (and
\* before the run ends); the status paused is never written and run.paused,
\* run.resumed, tool.call.approved and tool.call.rejected are never emitted
C24_AutoApproveBatch ==
    auto_approve =>
        /\ \A i \in 1..Len(emitted) :
              emitted[i].type = "tool.calls.proposed" =>
                  LET j == NextStepAfter(emitted, i)
                      got_calls == ResultCallsBetween(emitted, i, j)
                      tools == emitted[i].data.tools
                  IN  IF j <= Len(emitted) \/ pc # "exec_auto"
                      THEN got_calls = tools
                      ELSE /\ Len(got_calls) < Len(tools)
                           /\ got_calls = SubSeq(tools, 1, Len(got_calls))
                           /\ cur = tools[Len(got_calls) + 1]
        /\ "paused" \notin Range(statuses)
        /\ \A i \in 1..Len(emitted) :
              emitted[i].type \notin {"run.paused", "run.resumed", "tool.call.approved",
                                       "tool.call.rejected"}

C24_Witness ==
    /\ auto_approve
    /\ pc = "done"
    /\ Len(StepsStarted) = 2
    /\ \E i \in 1..Len(emitted) :
          /\ emitted[i].type = "tool.calls.proposed"
          /\ emitted[i].data.tools = <<1, 2>>
          /\ emitted[i + 1].type = "tool.result" /\ CallOf(emitted[i + 1]) = 1
          /\ emitted[i + 2].type = "tool.result" /\ CallOf(emitted[i + 2]) = 2
          /\ emitted[i + 3].type = "run.step.started"
    /\ Last(statuses) = "completed"

\* ------------------------------------------------- a run to its end
\* One run from the moment start_run has registered its runner and created
\* the task _bg, under the assumptions of a run that is served: the
\* reasoning step and the tools return, and a paused run whose queue holds
\* no decision for a pending call is sent one.

\* the state start_run leaves: the session exists, its runner is registered
InitLive ==
    /\ BusInit
    /\ \E auto \in BOOLEAN : RunInit(auto)
    /\ AgentConfig({}, TRUE, <<"hi">>) /\ NoScoring
    /\ sessions = {SessionId}
    /\ runs = create_run(<<>>, SessionId)
    /\ runners = register(<<>>, SessionId, 1)
    /\ responses = <<Response(SessionId, Ok)>>

\* the reasoning step returns: tool calls, a final text or neither (a final
\* text that comes with tool calls is not looked at, runner.py 111-131)
AgentAnswers == {res \in AgentResults : ~res.raises /\ ~(res.tools > 0 /\ res.final)}

\* submit_decision for a call that is pending, by the client the paused run
\* waits for: sent when the queue holds no decision for a pending call.  The
\* client answers the pending calls in the order they were proposed.
AnswerPending ==
    /\ pc = "decide"
    /\ \A i \in 1..Len(decisions) : decisions[i].call_id \notin pending
    /\ \E d \in Decisions :
          /\ d.call_id \in pending
          /\ \A c \in pending : d.call_id <= c
          /\ decisions' = decisions_put(decisions, d)
    /\ UNCHANGED busvars
    /\ UNCHANGED <<names, stored, raised>>
    /\ UNCHANGED cfgvars
    /\ UNCHANGED apivars
    /\ UNCHANGED <<auto_approve, pc, step, pending, cancel_set, cur, batch, ncalls, statuses,
                   emitted, executed, consumed, agentlog, ncancel, nsubmit>>

\* the steps of run() when the reasoning step returns
ServedSteps ==
    \/ RunStart
    \/ \E res \in AgentAnswers : AgentReturns(res)
    \/ ExecAutoReturns
    \/ Decide
    \/ ExecDecReturns

\* _bg: run() has returned, finally: runners.pop
RunReturns ==
    /\ pc = "done"
    /\ ~runs[1].done
    /\ runs' = [runs EXCEPT ![1].done = TRUE, ![1].status = Last(statuses)]
    /\ runners' = pop(runners, runs[1].session)
    /\ UNCHANGED <<sessions, responses>>
    /\ UNCHANGED busvars
    /\ UNCHANGED runvars

NextLive ==
    \/ ServedSteps
    \/ AnswerPending
    \/ RunReturns
    \/ Cancel

\* the event loop runs every task that is ready, so run() and _bg go on
\* whenever they can; the client answers a paused run
SpecLive ==
    /\ InitLive
    /\ [][NextLive]_vars
    /\ WF_vars(ServedSteps)
    /\ WF_vars(AnswerPending)
    /\ WF_vars(RunReturns)

\* run() has returned with the run in a terminal status, and the entry of its
\* session is out of the registry: start_run would accept a new run
Returned ==
    /\ pc = "done"
    /\ ~raised
    /\ Last(statuses) \in Terminal
    /\ ~registered(runners, SessionId)

\* C25: a run whose reasoning step and tools return and whose pending calls
\* are decided while it is paused eventually returns in a terminal status,
\* and the entry of its session is then removed from the registry
C25_RunTerminates == <>Returned

C25_Witness ==
    /\ Returned
    /\ ~auto_approve
    /\ Len(StepsStarted) = MaxSteps
    /\ "paused" \in Range(statuses)
    /\ Len(executed) > 0
    /\ ncancel = 0

\* --------------------------------------------------------- stream_events
\* A viewer of the session event stream while a run of the session emits.
\* gen() first sends the rows of the store, then subscribes to the bus and
\* sends what its subscription gives; the run can emit in between.

\* the ids of rows of the events table
RowIds(rows) == [i \in 1..Len(rows) |-> rows[i].id]

\* gen() up to bus.subscribe: with a since, the rows of
\* store.list_events_since(session_id, since_ts_ms=int(since)) are sent.
\* The since of a viewer is the id of an event it has seen.
StreamReplay(s, since) ==
    /\ SessionId \in sessions
    /\ since <= seq[SessionTopic]
    /\ closed[s] = "none"
    /\ ~stream[s].started
    /\ stream' = [stream EXCEPT ![s] =
            [started |-> TRUE, since |-> since,
             rows |-> IF since = NoSince THEN <<>>
                      ELSE list_events_since(stored, SessionId, since)]]
    /\ UNCHANGED <<seq, history, subs, queue, closed, subinfo, returned, got, dropped, waiting>>
    /\ UNCHANGED runvars
    /\ UNCHANGED apivars

\* gen(): sub = await bus.subscribe(topic, since_id=since)
StreamSubscribe(s) ==
    /\ stream[s].started
    /\ Subscribe(s, SessionTopic, stream[s].since, TRUE)

\* the run that emits, with auto-approval
InitStream == InitLive /\ auto_approve

\* one viewer
Viewer == 1

NextStream ==
    \/ RunStart
    \/ \E res \in AgentAnswers : AgentReturns(res)
    \/ ExecAutoReturns
    \/ \E since \in {NoSince} \cup (0..MaxPublish) : StreamReplay(Viewer, since)
    \/ StreamSubscribe(Viewer)
    \/ SubNext(Viewer)
    \/ Close(Viewer)

SpecStream == InitStream /\ [][NextStream]_vars

\* the envelopes the bus replay of subscribe() had to enqueue, and those of
\* them the new mailbox had no room for
Replayed(s) ==
    LET from == IF subinfo[s].since > subinfo[s].oldest THEN subinfo[s].since
                ELSE subinfo[s].oldest
    IN  IF subinfo[s].at > from THEN subinfo[s].at - from ELSE 0
ReplayLost(s) == IF Replayed(s) > QueueSize THEN Replayed(s) - QueueSize ELSE 0

\* what the viewer is sent over the whole stream: the store rows, then the
\* envelopes of its subscription (those still in its mailbox included)
Sent(s) == RowIds(stream[s].rows) \o Received(s)

\* C29: a viewer that resumes the stream with last-seen id X, and that never
\* lets its mailbox overflow once subscribed, is sent over the whole stream
\* every event with id > X that is retained, in order, without gap or
\* duplicate, and no event with id <= X
C29_ResumeComplete ==
    \A s \in SubIds :
        (stream[s].started /\ stream[s].since # NoSince /\ closed[s] = "open"
            /\ dropped[s] = ReplayLost(s)) =>
            LET X == stream[s].since
                first == IF X > subinfo[s].oldest THEN X ELSE subinfo[s].oldest
            IN  /\ Increasing(Sent(s))
                /\ \A i \in 1..Len(Sent(s)) : Sent(s)[i] > X
                /\ \A id \in (first + 1)..seq[SessionTopic] : id \in Range(Sent(s))

\* C26: a consumer suspended in queue.get() on a subscription that has been
\* closed is unblocked: its get() can return, so its iteration can end
C26_CloseWakesConsumer ==
    \A s \in SubIds :
        (s \in waiting /\ closed[s] = "closed") => ENABLED (SubNext(s) \/ Park(s))

\* C27: close() unregisters and is idempotent.  After a step, a closed
\* subscription is in no subscriber list, so that unsubscribing it again
\* changes nothing; no step, publish included, changes the mailbox of a
\* subscription that was closed before it; and the step that closes one
\* subscription keeps every other subscriber where it was
C27_CloseUnregisters ==
    [][/\ \A s \in SubIds :
             closed'[s] = "closed" =>
                 /\ \A t \in Topics : s \notin Range(subs'[t])
                 /\ remove(subs'[subinfo'[s].topic], s) = subs'[subinfo'[s].topic]
       /\ \A s \in SubIds : closed[s] = "closed" => queue'[s] = queue[s] /\ closed'[s] = "closed"
       /\ \A s \in SubIds :
             (closed[s] = "open" /\ closed'[s] = "closed") =>
                 \A t \in Topics :
                     subs'[t] = SelectSeq(subs[t], LAMBDA x : x # s)]_vars

C27_Witness ==
    /\ closed[1] = "closed" /\ closed[2] = "open"
    /\ subinfo[1].topic = "t" /\ subinfo[2].topic = "t"
    /\ subinfo[1].at = 0 /\ subinfo[2].at = 0
    /\ subs["t"] = <<2>>
    /\ got[1] = <<>> /\ got[2] = <<>>
    /\ Len(queue[1]) = 1 /\ Len(queue[2]) = 2
    /\ dropped[2] = 0

\* C28: backpressure is per subscriber and never blocks.  A publish can
\* always be made, whatever the mailboxes hold; every envelope published
\* to a topic since a subscription was registered was put into its mailbox,
\* where it is still, or from where it was taken by the consumer or lost by
\* an overflow of that mailbox; a subscriber whose own mailbox never
\* overflowed has obtained every one of them in order, whatever the other
\* mailboxes lost
C28_PerSubscriberBackpressure ==
    /\ \A t \in Topics :
          seq[t] < (IF t = "t" THEN MaxPublish ELSE MaxOtherPublish) => ENABLED Publish(t)
    /\ \A s \in SubIds :
          closed[s] = "open" =>
              LET t == subinfo[s].topic
                  published == seq[t] - subinfo[s].at
              IN  /\ Len(got[s]) + Len(queue[s]) + dropped[s] = published
                  /\ Len(queue[s]) <= QueueSize
                  /\ queue[s] # <<>> => Last(Received(s)) = seq[t]
                  /\ dropped[s] = 0 =>
                        Received(s) = [i \in 1..published |-> subinfo[s].at + i]

C28_Witness ==
    /\ closed[1] = "open" /\ closed[2] = "open"
    /\ subinfo[1].topic = "t" /\ subinfo[2].topic = "t"
    /\ subinfo[1].at = 0 /\ subinfo[2].at = 0
    /\ got[1] = <<>> /\ Len(queue[1]) = QueueSize /\ dropped[1] = MaxPublish - QueueSize
    /\ dropped[2] = 0 /\ Len(Received(2)) = MaxPublish

\* C30: submit_decision never blocks and loses nothing.  It can be called in
\* every state of the run; the step that submits a decision appends it to
\* the queue and changes neither pending, nor the status, nor the events,
\* nor where run() is; the decision loop takes the decision at the head of
\* the queue; and no other step touches the queue: the decisions are
\* consumed in the order they were submitted
C30_SubmitNeverBlocks ==
    [][/\ nsubmit < MaxDecisions => \A d \in Decisions : ENABLED SubmitDecision(d)
       /\ nsubmit' # nsubmit =>
             /\ Len(decisions') = Len(decisions) + 1
             /\ SubSeq(decisions', 1, Len(decisions)) = decisions
             /\ Last(decisions') \in Decisions
             /\ pending' = pending /\ statuses' = statuses /\ emitted' = emitted
             /\ pc' = pc /\ consumed' = consumed /\ executed' = executed
       /\ consumed' # consumed =>
             /\ Len(decisions) > 0
             /\ consumed' = Append(consumed, Head(decisions))
             /\ decisions' = Tail(decisions)
       /\ (nsubmit' = nsubmit /\ consumed' = consumed) => decisions' = decisions]_vars

C30_Witness ==
    /\ pc = "exec_dec"
    /\ Len(consumed) = 1
    /\ Len(decisions) = 1
    /\ decisions[1].call_id = cur
    /\ decisions[1] # consumed[1]
    /\ nsubmit = 2

\* ------------------------------------------------------- the event loop
\* All tasks run on the one thread of the asyncio event loop.  In
\* run_agent_once the chat completion is requested with the synchronous
\* client (client.chat.completions.create, not awaited), and the tools do
\* their file work inside async def bodies without an await: from the call
\* of run_agent_once or registry.execute to its return the thread stays in
\* run(), and no other task takes a step.  self._decisions.get() suspends.

\* the thread of the event loop is not inside run()
LoopFree == pc \notin {"agent", "exec_auto", "exec_dec"}

\* the topic of another session
OtherTopic == "t"

\* the run of another session emits an event on its topic
OtherPublish == LoopFree /\ Publish(OtherTopic)

\* a viewer of another session subscribes
OtherSubscribe(s) == LoopFree /\ Subscribe(s, OtherTopic, NoSince, FALSE)

\* a client submits a decision
LoopSubmit(d) == LoopFree /\ SubmitDecision(d)

NextLoop ==
    \/ RunStart
    \/ \E out \in LLMOutputs : AgentOnce(out)
    \/ ExecAutoReturns
    \/ Decide
    \/ ExecDecReturns
    \/ OtherPublish
    \/ \E s \in SubIds : OtherSubscribe(s)
    \/ \E d \in Decisions : LoopSubmit(d)

SpecLoop == Init /\ [][NextLoop]_vars

\* C31: while a run is in its reasoning step, in a tool execution or in the
\* decision wait, the others are not blocked: the run of another session can
\* publish and a viewer can subscribe
C31_SuspendedRunBlocksNobody ==
    pc \in {"agent", "exec_auto", "exec_dec", "decide"} =>
        /\ seq[OtherTopic] < MaxPublish => ENABLED OtherPublish
        /\ closed[1] = "none" => ENABLED OtherSubscribe(1)

\* ------------------------------------------------------ calculate_score
\* devops_agent/scorer.py.  Python integers have no width, so nothing
\* overflows; the time is taken in whole seconds.
SpeedLimit == 300
CommitLimit == 20
Times == (SpeedLimit - TimeSpan)..(SpeedLimit + TimeSpan)
Commits == 0..MaxCommits

\* the built-in max of two numbers
max(a, b) == IF a >= b THEN a ELSE b

\* the final score is not kept at zero
calculate_score_unclamped(t, c) ==
    LET base_score == 100
        speed_bonus == IF t < SpeedLimit THEN 10 ELSE 0
        efficiency_penalty == max(0, (c - CommitLimit) * 2)
    IN  [base_score |-> base_score, speed_bonus |-> speed_bonus,
         efficiency_penalty |-> efficiency_penalty,
         final_score |-> base_score + speed_bonus - efficiency_penalty]

\* calculate_score(total_time_seconds, commit_count)
calculate_score(t, c) ==
    LET base_score == 100
        speed_bonus == IF t < SpeedLimit THEN 10 ELSE 0
        efficiency_penalty == max(0, (c - CommitLimit) * 2)
        final_score == max(0, base_score + speed_bonus - efficiency_penalty)
    IN  [base_score |-> base_score, speed_bonus |-> speed_bonus,
         efficiency_penalty |-> efficiency_penalty, final_score |-> final_score]

InitScore ==
    /\ BusInit
    /\ RunInit(FALSE)
    /\ allowed_tools = {} /\ azure = TRUE /\ user_text = <<"hi">>
    /\ ApiInit
    /\ \E t \in Times, c \in Commits : ScoreInput(t, c)

\* the call of calculate_score
Score ==
    /\ score = NotScored
    /\ score' = calculate_score(total_time_seconds, commit_count)
    /\ UNCHANGED <<total_time_seconds, commit_count, allowed_tools, azure, user_text>>
    /\ UNCHANGED busvars
    /\ UNCHANGED apivars
    /\ UNCHANGED <<auto_approve, pc, step, pending, decisions, cancel_set, cur, batch, ncalls,
                   statuses, emitted, executed, consumed, agentlog, ncancel, nsubmit, names,
                   stored, raised>>

SpecScore == InitScore /\ [][Score]_vars

\* C32: calculate_score(t, c) returns base_score 100, speed_bonus 10 when
\* t < 300 and 0 otherwise, efficiency_penalty 2 * (c - 20) when c > 20 and 0
\* otherwise, and final_score the larger of 0 and base + bonus - penalty; so
\* the final score is never negative and the penalty is 0 at 20 commits
C32_ScoreFormula ==
    score # NotScored =>
        LET t == total_time_seconds
            c == commit_count
            bonus == IF t < 300 THEN 10 ELSE 0
            penalty == IF c > 20 THEN 2 * (c - 20) ELSE 0
        IN  /\ score.base_score = 100
            /\ score.speed_bonus = bonus
            /\ score.efficiency_penalty = penalty
            /\ score.final_score = (IF 100 + bonus - penalty > 0 THEN 100 + bonus - penalty ELSE 0)
            /\ score.final_score >= 0
            /\ c = 20 => score.efficiency_penalty = 0

C32_Witness ==
    /\ score # NotScored
    /\ total_time_seconds = 299
    /\ commit_count = MaxCommits
    /\ score.speed_bonus = 10
    /\ score.efficiency_penalty > 110
    /\ score.final_score = 0

\* run() has returned after MaxSteps reasoning steps that all returned, none
\* with a final answer that was emitted, and cancel() was never called
StepsUsedUp ==
    /\ pc = "done"
    /\ ncancel = 0
    /\ Len(agentlog) = MaxSteps
    /\ \A i \in 1..Len(agentlog) : ~agentlog[i].raises
    /\ "assistant.final" \notin Range(Types(emitted))

\* C33: a run whose step budget is used up without a final answer, a
\* cancellation or an error is reported as completed: the last status
\* written is completed, the last event is the one run.completed, with
\* steps_used = max_steps, and there is no assistant.final and no run.error
C33_BudgetExhaustedCompletes ==
    StepsUsedUp =>
        /\ Last(statuses) = "completed"
        /\ Count(statuses, LAMBDA x : x = "completed") = 1
        /\ Last(emitted).type = "run.completed"
        /\ Last(emitted).data.step = MaxSteps
        /\ Count(emitted, LAMBDA e : e.type = "run.completed") = 1
        /\ "run.error" \notin Range(Types(emitted))
        /\ "failed" \notin Range(statuses)
        /\ ~raised

C33_Witness ==
    /\ StepsUsedUp
    /\ agentlog[1].tools = 0 /\ ~agentlog[1].final
    /\ agentlog[MaxSteps].tools > 0
    /\ Last(emitted).type = "run.completed"
    /\ Len(StepsStarted) = MaxSteps

ToolEvents == {"tool.calls.proposed", "tool.call.approved", "tool.call.rejected", "tool.result"}

\* the events of step k: from its run.step.started to the next one
EventsOfStep(k) ==
    LET starts == {i \in 1..Len(emitted) :
                      emitted[i].type = "run.step.started" /\ emitted[i].data.step = k}
        from == CHOOSE i \in starts : TRUE
    IN  IF starts = {} THEN <<>>
        ELSE SubSeq(emitted, from, NextStepAfter(emitted, from) - 1)

\* C34: assistant.final is emitted only in a step that proposed no tool
\* call: a step whose reasoning returned calls, with or without a final
\* text, proposes the calls and emits no assistant.final; a run emits
\* assistant.final at most once, and after it no run.step.started, tool
\* event or run.paused
C34_FinalOnlyWithoutCalls ==
    /\ Count(emitted, LAMBDA e : e.type = "assistant.final") <= 1
    /\ \A i \in 1..Len(emitted) :
          emitted[i].type = "assistant.final" =>
              \A j \in (i + 1)..Len(emitted) :
                  emitted[j].type \notin ToolEvents \cup {"run.step.started", "run.paused"}
    /\ \A k \in 1..Len(agentlog) :
          LET types == Range(Types(EventsOfStep(k)))
          IN  /\ "assistant.final" \in types => types \cap ToolEvents = {}
              /\ (agentlog[k].tools > 0 /\ ~agentlog[k].raises) =>
                    /\ "tool.calls.proposed" \in types
                    /\ "assistant.final" \notin types
              /\ "assistant.final" \in types => agentlog[k].final /\ agentlog[k].tools = 0

C34_Witness ==
    /\ pc = "done"
    /\ Len(agentlog) = 2
    /\ agentlog[1].tools > 0 /\ agentlog[1].final
    /\ agentlog[2].tools = 0 /\ agentlog[2].final
    /\ Count(emitted, LAMBDA e : e.type = "assistant.final") = 1
    /\ "assistant.final" \in Range(Types(EventsOfStep(2)))
    /\ "tool.result" \in Range(Types(EventsOfStep(1)))

\* the reasoning step has just returned neither calls nor a final answer
NoOpTurn ==
    /\ Len(agentlog') = Len(agentlog) + 1
    /\ Last(agentlog').tools = 0
    /\ ~Last(agentlog').final
    /\ ~Last(agentlog').raises

\* C35: a step whose reasoning returns neither tool calls nor a final answer
\* is a no-op turn: it emits nothing of its own and changes neither pending
\* nor the status; with budget left and no cancellation set the loop goes on
\* with the next step (its run.step.started), otherwise the loop is left
C35_NoOpTurn ==
    [][NoOpTurn =>
         /\ pending' = pending
         /\ executed' = executed
         /\ IF step < MaxSteps /\ ~cancel_set
            THEN /\ pc' = "agent"
                 /\ step' = step + 1
                 /\ statuses' = statuses
                 /\ emitted' = Append(emitted, [type |-> "run.step.started",
                                                data |-> Data(<<>>, step + 1, "none")])
            ELSE /\ pc' = "done"
                 /\ step' = step
                 /\ Len(emitted') = Len(emitted) + 1
                 /\ Last(emitted').type = (IF cancel_set THEN "run.cancelled" ELSE "run.completed")]_vars

C35_Witness ==
    /\ pc = "agent"
    /\ step = 2
    /\ Len(agentlog) = 1
    /\ agentlog[1].tools = 0 /\ ~agentlog[1].final /\ ~agentlog[1].raises
    /\ Types(emitted) = <<"run.started", "assistant.user_message", "run.step.started",
                          "run.step.started">>
    /\ statuses = <<"starting", "running">>

\* the run.paused and run.resumed events of a log, in order
Pauses(log) == SelectSeq(log, LAMBDA e : e.type \in {"run.paused", "run.resumed"})

\* the first run.resumed or terminal event after position i, Len + 1 if none
PauseEnd(log, i) ==
    LET ends == {j \in (i + 1)..Len(log) : log[j].type \in TerminalEvents \cup {"run.resumed"}}
    IN  IF ends = {} THEN Len(log) + 1
        ELSE CHOOSE j \in ends : \A k \in ends : j <= k

\* C36: without auto-approval run.paused and run.resumed alternate, run.paused
\* first; run.resumed and its status write running happen only with pending
\* empty; and from a run.paused to the next run.resumed or terminal event
\* the reasoning step is not invoked and no run.step.started is emitted
C36_PauseResumeAlternate ==
    [][~auto_approve =>
         /\ \A i \in 1..Len(Pauses(emitted')) :
               Pauses(emitted')[i].type = (IF i % 2 = 1 THEN "run.paused" ELSE "run.resumed")
         /\ Len(Pauses(emitted')) > Len(Pauses(emitted)) /\ Last(Pauses(emitted')).type = "run.resumed"
               => /\ pending' = {}
                  /\ Count(statuses', LAMBDA x : x = "running")
                        = Count(statuses, LAMBDA x : x = "running") + 1
         /\ Count(statuses', LAMBDA x : x = "running")
               = Count(emitted', LAMBDA e : e.type \in {"run.started", "run.resumed"})
         /\ \A i \in 1..Len(emitted') :
               emitted'[i].type = "run.paused" =>
                   \A j \in (i + 1)..(PauseEnd(emitted', i) - 1) :
                       emitted'[j].type # "run.step.started"
         /\ (Pauses(emitted) # <<>> /\ Last(Pauses(emitted)).type = "run.paused"
               /\ Len(agentlog') > Len(agentlog)) => FALSE]_vars

C36_Witness ==
    /\ ~auto_approve
    /\ pc = "done"
    /\ Types(Pauses(emitted)) = <<"run.paused", "run.resumed", "run.paused", "run.resumed">>
    /\ Last(statuses) = "completed"
    /\ Len(consumed) = 2

\* min(N, history_size)
Retained(n) == IF n < HistorySize THEN n ELSE HistorySize

\* C37: after N publishes to a topic its history holds exactly
\* min(N, HistorySize) envelopes, those with ids N - min(N, HistorySize) + 1 .. N
\* in increasing order; a publish appends its envelope and removes nothing
\* but the oldest retained one, and only from a full history; the history is
\* kept with and without subscribers
C37_HistoryWindow ==
    [][\A t \in Topics :
         LET n == Len(returned'[t])
         IN  /\ n = seq'[t]
             /\ Ids(history'[t]) = [i \in 1..Retained(n) |-> n - Retained(n) + i]
             /\ n = Len(returned[t]) => history'[t] = history[t]
             /\ n # Len(returned[t]) =>
                   /\ n = Len(returned[t]) + 1
                   /\ Last(history'[t]).id = IntToStr(n)
                   /\ history'[t] = (IF Len(history[t]) = HistorySize
                                      THEN Tail(history[t]) ELSE history[t])
                                     \o <<Last(history'[t])>>]_vars

C37_Witness ==
    /\ seq["t"] = HistorySize + 1
    /\ Ids(history["t"]) = [i \in 1..HistorySize |-> i + 1]
    /\ \A s \in SubIds : closed[s] = "none"
    /\ seq[SessionTopic] = 1
    /\ Len(history[SessionTopic]) = 1

\* the subscriptions taken on a topic, closed ones included
MailboxesOf(t, info, cl) == {s \in SubIds : cl[s] # "none" /\ info[s].topic = t}

\* C38: the bus state is partitioned by topic: a publish, subscribe, next or
\* close on one topic leaves every other topic's counter, history and
\* subscriber list as they were and changes no mailbox of the other topic's
\* subscriptions, so the other topic's ids go on from its own last id
C38_TopicPartition ==
    [][\E a \in Topics :
         \A b \in Topics \ {a} :
             /\ seq'[b] = seq[b]
             /\ history'[b] = history[b]
             /\ subs'[b] = subs[b]
             /\ returned'[b] = returned[b]
             /\ MailboxesOf(b, subinfo', closed') = MailboxesOf(b, subinfo, closed)
             /\ \A s \in MailboxesOf(b, subinfo', closed') :
                   /\ queue'[s] = queue[s]
                   /\ dropped'[s] = dropped[s]
                   /\ got'[s] = got[s]]_vars

C38_Witness ==
    /\ closed[1] = "open" /\ subinfo[1].topic = "t" /\ subinfo[1].at = 0
    /\ closed[2] = "open" /\ subinfo[2].topic = SessionTopic /\ subinfo[2].at = 0
    /\ seq["t"] = 2 /\ seq[SessionTopic] = 1
    /\ Ids(queue[1]) = <<1, 2>>
    /\ Ids(queue[2]) = <<1>>
    /\ Ids(history[SessionTopic]) = <<1>>
    /\ subs = [t \in Topics |-> IF t = "t" THEN <<1>> ELSE <<2>>]

\* the retained events of topic t with id > k
After(t, k) == SelectSeq(history[t], LAMBDA e : StrToInt(e.id) > k)

\* C39: the replay goes through the bounded mailbox: when subscribe with
\* since_id = k finds more than QueueSize retained events with id > k the
\* mailbox it returns holds the QueueSize most recent of them in increasing id
\* order (all of them when they fit), and no mailbox ever holds more than
\* QueueSize envelopes
C39_ReplayBounded ==
    [][/\ \A s \in SubIds : Len(queue'[s]) <= QueueSize
       /\ \A s \in SubIds :
             (closed[s] = "none" /\ closed'[s] = "open" /\ subinfo'[s].since # NoSince) =>
                 LET r == After(subinfo'[s].topic, subinfo'[s].since)
                 IN  /\ queue'[s] = (IF Len(r) > QueueSize
                                      THEN SubSeq(r, Len(r) - QueueSize + 1, Len(r))
                                      ELSE r)
                     /\ Increasing(Ids(queue'[s]))
                     /\ dropped'[s] = (IF Len(r) > QueueSize THEN Len(r) - QueueSize ELSE 0)]_vars

C39_Witness ==
    \E s \in SubIds :
        /\ closed[s] = "open" /\ got[s] = <<>>
        /\ subinfo[s].topic = "t" /\ subinfo[s].since = 0
        /\ subinfo[s].at = HistorySize /\ seq["t"] = HistorySize
        /\ Len(history["t"]) = HistorySize
        /\ queue[s] = SubSeq(history["t"], HistorySize - QueueSize + 1, HistorySize)
        /\ dropped[s] = HistorySize - QueueSize

\* a subscription taken without since_id or with replay = False
NoReplay(info, cl, s) == cl[s] # "none" /\ info[s].since = NoSince

\* C40: a subscription taken without since_id, or with replay = False, gets
\* no replay: its mailbox is empty when subscribe returns, every envelope it
\* ever holds was published after its registration, and while it is
\* registered each publish to its topic puts its envelope into the mailbox
\* (at the price of the oldest one when the mailbox is full)
C40_NoReplayWithoutSince ==
    [][\A s \in SubIds :
         NoReplay(subinfo', closed', s) =>
             LET t == subinfo'[s].topic
                 rec == Ids(got'[s] \o queue'[s])
             IN  /\ closed[s] = "none" => queue'[s] = <<>> /\ got'[s] = <<>> /\ dropped'[s] = 0
                 /\ \A i \in 1..Len(rec) : rec[i] > subinfo'[s].at
                 /\ closed'[s] = "open" =>
                       /\ Len(rec) + dropped'[s] = seq'[t] - subinfo'[s].at
                       /\ dropped'[s] = 0 =>
                             rec = [i \in 1..Len(rec) |-> subinfo'[s].at + i]
                 /\ (closed[s] = "open" /\ seq'[t] # seq[t]) =>
                       Last(queue'[s]) = Last(history'[t])]_vars

C40_Witness ==
    \E s \in SubIds :
        /\ closed[s] = "open" /\ subinfo[s].since = NoSince
        /\ subinfo[s].topic = "t" /\ subinfo[s].at = 2
        /\ seq["t"] = 4
        /\ Ids(history["t"]) = <<2, 3, 4>>
        /\ Ids(got[s]) = <<3>>
        /\ Ids(queue[s]) = <<4>>

====
